---- MODULE Spec2Model ----
(***************************************************************************)
(* Model of text-replacer (src/main.rs): the App state, the main loop      *)
(* (main / App::run / App::handle_events) and the key dispatch             *)
(* (App::on_key_pressed) with its clipboard effects.                       *)
(***************************************************************************)
EXTENDS Integers, Sequences, FiniteSets, TLC

(***************************************************************************)
(* Bounds of the model.                                                    *)
(***************************************************************************)
\* longest text the system clipboard holds at start
MaxLen == 2
\* number of distinct timestamps chrono::Local::now() may produce
MaxDate == 1
\* highest function key the event source produces (F6.. are unmapped)
MaxF == 6
\* longest text the buffer starts with where the text transform is examined
NormLen == 4

(***************************************************************************)
(* Values.                                                                 *)
(***************************************************************************)
\* Option<T>: None is <<>>, Some(x) is <<x>>
None == <<>>
Some(x) == <<x>>

\* characters of the model's texts; a text is a sequence of characters
Whitespace == {" ", "\t"}
Alphabet == {"a"} \cup Whitespace

RECURSIVE Strings(_)
Strings(n) ==
    IF n = 0 THEN {<<>>}
    ELSE Strings(n - 1) \cup
         {Append(s, c) : s \in {t \in Strings(n - 1) : Len(t) = n - 1}, c \in Alphabet}

\* the texts of the spec's scenarios: "a   b\tc" and "  hi  there "
TextABC == <<"a", " ", " ", " ", "b", "\t", "c">>
TextHiThere == <<" ", " ", "h", "i", " ", " ", "t", "h", "e", "r", "e", " ">>

\* what the system clipboard may hold: no plain text, or a text
ClipContents == {None} \cup {Some(s) : s \in Strings(MaxLen) \cup {TextABC}}

Dates == 1..MaxDate

\* crossterm KeyEvent: code, modifiers and kind
Modifiers == SUBSET {"SHIFT", "CONTROL"}
KeyCodes == {<<"F", n>> : n \in 1..MaxF} \cup {<<"Char", "c">>}
KeyEvents == [code : KeyCodes, modifiers : Modifiers, kind : {"Press"}]
             \cup [code : {<<"Char", "c">>}, modifiers : {{"CONTROL"}}, kind : {"Release"}]
\* crossterm Event: a key event or any other kind of event
Events == {<<"Key", k>> : k \in KeyEvents} \cup {<<"Resize">>}

\* outcomes of the external calls made during one key press
Envs == [new : BOOLEAN, get : BOOLEAN, set : BOOLEAN, date : Dates]

\* error values (Box<dyn Error>, by their message)
ErrUnavailable == "Clipboard unavailable"
ErrNew == "Clipboard::new failed"
ErrSetText == "Clipboard::set_text failed"
ErrDraw == "Terminal::draw failed"
ErrRead == "event::read failed"

VARIABLES
    exit,              \* App.exit
    clipboard,         \* App.clipboard: TRUE when Some(handle)
    text,              \* App.text
    last_pressed_key,  \* App.last_pressed_key
    last_error,        \* App.last_error
    last_action,       \* App.last_action
    sys_clipboard,     \* content of the system clipboard
    event,             \* what event::read() returned in this iteration of run
    calls,             \* effect calls made in this iteration of run
    rendered,          \* the state last passed to the renderer by draw
    pc,                \* position of main: "draw", "read", "restore", "done"
    terminal,          \* "raw" after ratatui::init(), "restored" after ratatui::restore()
    main_result        \* the value main returned, "Running" before it returns

vars == <<exit, clipboard, text, last_pressed_key, last_error, last_action,
          sys_clipboard, event, calls, rendered, pc, terminal, main_result>>

(***************************************************************************)
(* Text transform.                                                         *)
(***************************************************************************)
RECURSIVE SkipRun(_)
\* the rest of s after the whitespace run it starts with (the greedy \s+)
SkipRun(s) ==
    IF s # <<>> /\ Head(s) \in Whitespace THEN SkipRun(Tail(s)) ELSE s

RECURSIVE ReplaceAllPairs(_)
\* variant: the pattern matches at most two whitespace characters (\s\s?)
ReplaceAllPairs(s) ==
    IF s = <<>> THEN <<>>
    ELSE IF Head(s) \in Whitespace
         THEN IF Tail(s) # <<>> /\ Head(Tail(s)) \in Whitespace
              THEN <<" ">> \o ReplaceAllPairs(Tail(Tail(s)))
              ELSE <<" ">> \o ReplaceAllPairs(Tail(s))
         ELSE <<Head(s)>> \o ReplaceAllPairs(Tail(s))

RECURSIVE ReplaceAllFrom(_)
\* variant: the text is trimmed at its start before the runs are replaced
ReplaceAllFrom(s) ==
    IF s = <<>> THEN <<>>
    ELSE IF Head(s) \in Whitespace
         THEN <<" ">> \o ReplaceAllFrom(SkipRun(Tail(s)))
         ELSE <<Head(s)>> \o ReplaceAllFrom(Tail(s))
ReplaceAllTrimmed(s) == ReplaceAllFrom(SkipRun(s))

RECURSIVE ReplaceAll(_)
\* Regex::new(r"\s+").replace_all(s, " ")
ReplaceAll(s) ==
    IF s = <<>> THEN <<>>
    ELSE IF Head(s) \in Whitespace
         THEN <<" ">> \o ReplaceAll(SkipRun(Tail(s)))
         ELSE <<Head(s)>> \o ReplaceAll(Tail(s))

(***************************************************************************)
(* The user logic. A world w is the App together with the system           *)
(* clipboard and the log of calls; every effect returns the new world and  *)
(* its Result ("Ok" or the error).                                         *)
(***************************************************************************)
World == [exit |-> exit, clipboard |-> clipboard, text |-> text,
          last_pressed_key |-> last_pressed_key, last_error |-> last_error,
          last_action |-> last_action, sys_clipboard |-> sys_clipboard,
          calls |-> calls]

Log(w, c) == [w EXCEPT !.calls = Append(@, c)]

\* variant: a read that finds no text empties the buffer
paste_text_clearing(w, env) ==
    IF ~env.new
    THEN [w |-> Log(w, "new:Err"), result |-> ErrNew]
    ELSE IF env.get /\ w.sys_clipboard # None
         THEN [w |-> [Log(Log(w, "new:Ok"), "get_text:Ok")
                        EXCEPT !.text = w.sys_clipboard[1]],
               result |-> "Ok"]
         ELSE [w |-> [Log(Log(w, "new:Ok"), "get_text:Err") EXCEPT !.text = <<>>],
               result |-> "Ok"]

\* variant: a failure of Clipboard::new() is swallowed like a read miss
paste_text_silent(w, env) ==
    IF ~env.new
    THEN [w |-> Log(w, "new:Err"), result |-> "Ok"]
    ELSE IF env.get /\ w.sys_clipboard # None
         THEN [w |-> [Log(Log(w, "new:Ok"), "get_text:Ok")
                        EXCEPT !.text = w.sys_clipboard[1]],
               result |-> "Ok"]
         ELSE [w |-> Log(Log(w, "new:Ok"), "get_text:Err"), result |-> "Ok"]

paste_text_from_clipboard(w, env) ==
    IF ~env.new
    THEN [w |-> Log(w, "new:Err"), result |-> ErrNew]
    ELSE IF env.get /\ w.sys_clipboard # None
         THEN [w |-> [Log(Log(w, "new:Ok"), "get_text:Ok")
                        EXCEPT !.text = w.sys_clipboard[1]],
               result |-> "Ok"]
         ELSE [w |-> Log(Log(w, "new:Ok"), "get_text:Err"), result |-> "Ok"]

\* variant: with no handle the copy does nothing and reports success
copy_text_silent(w, env) ==
    IF w.clipboard
    THEN IF env.set
         THEN [w |-> [Log(w, "set_text:Ok") EXCEPT !.sys_clipboard = Some(w.text)],
               result |-> "Ok"]
         ELSE [w |-> Log(w, "set_text:Err"), result |-> ErrSetText]
    ELSE [w |-> Log(w, "unavailable"), result |-> "Ok"]

copy_text_to_clipboard(w, env) ==
    IF w.clipboard
    THEN IF env.set
         THEN [w |-> [Log(w, "set_text:Ok") EXCEPT !.sys_clipboard = Some(w.text)],
               result |-> "Ok"]
         ELSE [w |-> Log(w, "set_text:Err"), result |-> ErrSetText]
    ELSE [w |-> Log(w, "unavailable"), result |-> ErrUnavailable]

remove_extra_spaces(w) ==
    [Log(w, "replace_all") EXCEPT !.text = ReplaceAll(w.text)]

\* variant: the buffer is cleared only when no error is pending
clear_text_unless_error(w) ==
    IF w.last_error = None THEN [Log(w, "clear") EXCEPT !.text = <<>>] ELSE Log(w, "clear")

clear_text(w) == [Log(w, "clear") EXCEPT !.text = <<>>]

request_exit(w) == [w EXCEPT !.exit = TRUE]

\* variant: the function keys are bound only without modifiers
ResolveStrict(code, modifiers) ==
    CASE code = <<"F", 1>> /\ modifiers = {} -> "QuickFix"
      [] code = <<"F", 2>> /\ modifiers = {} -> "PasteFromClipboard"
      [] code = <<"F", 3>> /\ modifiers = {} -> "RemoveExtraSpaces"
      [] code = <<"F", 4>> /\ modifiers = {} -> "CopyToClipboard"
      [] code = <<"F", 5>> /\ modifiers = {} -> "ClearText"
      [] code = <<"Char", "c">> /\ modifiers = {"CONTROL"} -> "Exit"
      [] OTHER -> "NoOp"

\* the arm of the match that (code, modifiers) selects
Resolve(code, modifiers) ==
    CASE code = <<"F", 1>> -> "QuickFix"
      [] code = <<"F", 2>> -> "PasteFromClipboard"
      [] code = <<"F", 3>> -> "RemoveExtraSpaces"
      [] code = <<"F", 4>> -> "CopyToClipboard"
      [] code = <<"F", 5>> -> "ClearText"
      [] code = <<"Char", "c">> /\ modifiers = {"CONTROL"} -> "Exit"
      [] OTHER -> "NoOp"

\* variant: the text is copied before it is normalized
QuickFixArm_copy_first(w, env) ==
    LET w1 == [w EXCEPT !.last_action = "QuickFix"]
        p == paste_text_from_clipboard(w1, env)
    IN  IF p.result # "Ok"
        THEN [w |-> p.w, result |-> p.result, returned |-> TRUE]
        ELSE LET c == copy_text_to_clipboard(Log(p.w, "replace_all"), env)
             IN  [w |-> [c.w EXCEPT !.text = ReplaceAll(@)],
                  result |-> c.result, returned |-> FALSE]

\* variant: a failed copy puts back the text the buffer held before the paste
QuickFixArm_rollback(w, env) ==
    LET w1 == [w EXCEPT !.last_action = "QuickFix"]
        p == paste_text_from_clipboard(w1, env)
    IN  IF p.result # "Ok"
        THEN [w |-> p.w, result |-> p.result, returned |-> TRUE]
        ELSE LET c == copy_text_to_clipboard(remove_extra_spaces(p.w), env)
             IN  [w |-> IF c.result = "Ok" THEN c.w ELSE [c.w EXCEPT !.text = w.text],
                  result |-> c.result, returned |-> FALSE]

\* variant: last_action is set once the paste has succeeded
QuickFixArm_action_late(w, env) ==
    LET p == paste_text_from_clipboard(w, env)
    IN  IF p.result # "Ok"
        THEN [w |-> p.w, result |-> p.result, returned |-> TRUE]
        ELSE LET c == copy_text_to_clipboard(
                        remove_extra_spaces([p.w EXCEPT !.last_action = "QuickFix"]), env)
             IN  [w |-> c.w, result |-> c.result, returned |-> FALSE]

\* the arm for F1; returned is TRUE when the ? operator left on_key_pressed
QuickFixArm(w, env) ==
    LET w1 == [w EXCEPT !.last_action = "QuickFix"]
        p == paste_text_from_clipboard(w1, env)
    IN  IF p.result # "Ok"
        THEN [w |-> p.w, result |-> p.result, returned |-> TRUE]
        ELSE LET c == copy_text_to_clipboard(remove_extra_spaces(p.w), env)
             IN  [w |-> c.w, result |-> c.result, returned |-> FALSE]

\* the match of on_key_pressed
Dispatch(w, action, env) ==
    CASE action = "QuickFix" -> QuickFixArm(w, env)
      [] action = "PasteFromClipboard" ->
            LET p == paste_text_from_clipboard(
                        [w EXCEPT !.last_action = "PasteFromClipboard"], env)
            IN  [w |-> p.w, result |-> p.result, returned |-> FALSE]
      [] action = "RemoveExtraSpaces" ->
            [w |-> remove_extra_spaces([w EXCEPT !.last_action = "RemoveExtraSpaces"]),
             result |-> "Ok", returned |-> FALSE]
      [] action = "CopyToClipboard" ->
            LET c == copy_text_to_clipboard(
                        [w EXCEPT !.last_action = "CopyToClipboard"], env)
            IN  [w |-> c.w, result |-> c.result, returned |-> FALSE]
      [] action = "ClearText" ->
            [w |-> clear_text([w EXCEPT !.last_action = "ClearText"]),
             result |-> "Ok", returned |-> FALSE]
      [] action = "Exit" ->
            [w |-> request_exit([w EXCEPT !.last_action = "Exit"]),
             result |-> "Ok", returned |-> FALSE]
      [] OTHER -> [w |-> w, result |-> "Ok", returned |-> FALSE]

\* format!("{}: {}", pretty_date, e.to_string())
ErrorMessage(date, e) == [date |-> date, msg |-> e]

\* variant: a call that succeeds clears the last error
RecordError_clearing(d, env) ==
    IF d.result # "Ok" /\ ~d.returned
    THEN [w |-> [d.w EXCEPT !.last_error = Some(ErrorMessage(env.date, d.result))],
          result |-> d.result]
    ELSE IF d.result = "Ok"
         THEN [w |-> [d.w EXCEPT !.last_error = None], result |-> d.result]
         ELSE [w |-> d.w, result |-> d.result]

\* store the last error message if it occurred
RecordError(d, env) ==
    IF d.result # "Ok" /\ ~d.returned
    THEN [w |-> [d.w EXCEPT !.last_error = Some(ErrorMessage(env.date, d.result))],
          result |-> d.result]
    ELSE [w |-> d.w, result |-> d.result]

\* variant: the key is recorded by the arms only, not before the match
on_key_pressed_in_arms(w, key_event, env) ==
    LET a == Resolve(key_event.code, key_event.modifiers)
        w1 == IF a = "NoOp" THEN w ELSE [w EXCEPT !.last_pressed_key = Some(key_event)]
    IN  RecordError(Dispatch(w1, a, env), env)

on_key_pressed(w, key_event, env) ==
    LET w1 == [w EXCEPT !.last_pressed_key = Some(key_event)]
    IN  RecordError(Dispatch(w1, Resolve(key_event.code, key_event.modifiers), env), env)

\* the match of handle_events on the event that was read
handle_event(w, e, env) ==
    IF e[1] = "Key" /\ e[2].kind = "Press"
    THEN on_key_pressed(w, e[2], env)
    ELSE [w |-> w, result |-> "Ok"]

(***************************************************************************)
(* The main loop.                                                          *)
(***************************************************************************)
\* what the renderer reads of the App
Snapshot == [text |-> text, last_pressed_key |-> last_pressed_key,
             last_action |-> last_action, last_error |-> last_error]

\* variant: the loop does not test exit
LoopNextForever(e) == "draw"

\* while !self.exit: where run goes after an iteration that did not fail
LoopNext(e) == IF e THEN "restore" ELSE "draw"

Init ==
    /\ exit = FALSE
    /\ clipboard \in BOOLEAN
    /\ text = <<>>
    /\ last_pressed_key = None
    /\ last_error = None
    /\ last_action = "None"
    /\ sys_clipboard \in ClipContents
    /\ event = None
    /\ calls = <<>>
    /\ rendered = None
    /\ pc = LoopNext(FALSE)
    /\ terminal = "raw"
    /\ main_result = "Running"

\* a new iteration of the loop starts: terminal.draw(|frame| self.draw(frame))?
Draw ==
    /\ pc = "draw"
    /\ \E ok \in BOOLEAN :
        IF ok
        THEN /\ rendered' = Some(Snapshot)
             /\ pc' = "read"
             /\ UNCHANGED main_result
        ELSE /\ pc' = "done"
             /\ main_result' = ErrDraw
             /\ UNCHANGED rendered
    /\ event' = None
    /\ calls' = <<>>
    /\ UNCHANGED <<exit, clipboard, text, last_pressed_key, last_error,
                   last_action, sys_clipboard, terminal>>

\* self.handle_events()? with the event read and the outcomes of its calls
HandleEvents ==
    /\ pc = "read"
    /\ \E e \in Events, env \in Envs :
        \E r \in {handle_event([World EXCEPT !.calls = <<>>], e, env)} :
            /\ event' = Some(e)
            /\ exit' = r.w.exit
            /\ text' = r.w.text
            /\ last_pressed_key' = r.w.last_pressed_key
            /\ last_error' = r.w.last_error
            /\ last_action' = r.w.last_action
            /\ sys_clipboard' = r.w.sys_clipboard
            /\ calls' = r.w.calls
            /\ IF r.result = "Ok"
               THEN pc' = LoopNext(r.w.exit) /\ UNCHANGED main_result
               ELSE pc' = "done" /\ main_result' = r.result
    /\ UNCHANGED <<clipboard, rendered, terminal>>

\* event::read()? fails
ReadFails ==
    /\ pc = "read"
    /\ pc' = "done"
    /\ main_result' = ErrRead
    /\ UNCHANGED <<exit, clipboard, text, last_pressed_key, last_error,
                   last_action, sys_clipboard, event, calls, rendered, terminal>>

\* ratatui::restore(); Ok(())
Restore ==
    /\ pc = "restore"
    /\ pc' = "done"
    /\ terminal' = "restored"
    /\ main_result' = "Ok"
    /\ UNCHANGED <<exit, clipboard, text, last_pressed_key, last_error,
                   last_action, sys_clipboard, event, calls, rendered>>

Next == Draw \/ HandleEvents \/ ReadFails \/ Restore

Spec == Init /\ [][Next]_vars

(***************************************************************************)
(* The handler alone: handle_events called event after event by a caller   *)
(* that does not act on the Result it returns nor on exit.                 *)
(***************************************************************************)
\* one call of handle_events, the event read being e
Call(e, env) ==
    /\ pc = "read"
    /\ \E r \in {handle_event([World EXCEPT !.calls = <<>>], e, env)} :
            /\ event' = Some(e)
            /\ exit' = r.w.exit
            /\ text' = r.w.text
            /\ last_pressed_key' = r.w.last_pressed_key
            /\ last_error' = r.w.last_error
            /\ last_action' = r.w.last_action
            /\ sys_clipboard' = r.w.sys_clipboard
            /\ calls' = r.w.calls
    /\ UNCHANGED <<clipboard, rendered, pc, terminal, main_result>>

\* the events of the handler's callers: every key once, Ctrl+c, a non-key event
CallEvents == {<<"Key", [code |-> c, modifiers |-> {}, kind |-> "Press"]>> : c \in KeyCodes}
              \cup {<<"Key", [code |-> <<"Char", "c">>, modifiers |-> {"CONTROL"},
                             kind |-> "Press"]>>,
                    <<"Resize">>}

\* the App as main constructs it, at the first event::read()
InitKeys ==
    /\ exit = FALSE
    /\ clipboard \in BOOLEAN
    /\ text = <<>>
    /\ last_pressed_key = None
    /\ last_error = None
    /\ last_action = "None"
    /\ sys_clipboard \in {None} \cup {Some(t) : t \in Strings(1)}
    /\ event = None
    /\ calls = <<>>
    /\ rendered = Some(Snapshot)
    /\ pc = "read"
    /\ terminal = "raw"
    /\ main_result = "Running"

CallHandleEvents == \E e \in CallEvents, env \in Envs : Call(e, env)

NextKeys == CallHandleEvents

SpecKeys == InitKeys /\ [][NextKeys]_vars

(***************************************************************************)
(* The text transform: the keys that act on the buffer alone (paste,       *)
(* normalize, clear), from an App whose buffer holds a pasted text.        *)
(***************************************************************************)
Press(code) == [code |-> code, modifiers |-> {}, kind |-> "Press"]

\* the App at an event::read(), after a text s was pasted (none for s = "")
InitNorm ==
    /\ exit = FALSE
    /\ clipboard \in BOOLEAN
    /\ text \in Strings(NormLen)
    /\ last_pressed_key = IF text = <<>> THEN None ELSE Some(Press(<<"F", 2>>))
    /\ last_error = None
    /\ last_action = IF text = <<>> THEN "None" ELSE "PasteFromClipboard"
    /\ sys_clipboard = Some(TextHiThere)
    /\ event = None
    /\ calls = <<>>
    /\ rendered = Some(Snapshot)
    /\ pc = "read"
    /\ terminal = "raw"
    /\ main_result = "Running"

PasteKey == \E env \in Envs : Call(<<"Key", Press(<<"F", 2>>)>>, env)
NormalizeKey == \E env \in Envs : Call(<<"Key", Press(<<"F", 3>>)>>, env)
ClearKey == \E env \in Envs : Call(<<"Key", Press(<<"F", 5>>)>>, env)

NextNorm == PasteKey \/ NormalizeKey \/ ClearKey

SpecNorm == InitNorm /\ [][NextNorm]_vars

(***************************************************************************)
(* Properties.                                                             *)
(***************************************************************************)
\* this step is handle_events reading a key press; KeyNow is its key event
Handles == pc = "read" /\ event' # None /\ event'[1][1] = "Key" /\ event'[1][2].kind = "Press"
KeyNow == event'[1][2]

\* this iteration read a key press; KeyRead is its key event
Handled == event # None /\ event[1][1] = "Key" /\ event[1][2].kind = "Press"
KeyRead == event[1][2]

FailedCalls == {"new:Err", "set_text:Err", "unavailable"}
ErrorOf(c) ==
    CASE c = "new:Err" -> ErrNew
      [] c = "set_text:Err" -> ErrSetText
      [] c = "unavailable" -> ErrUnavailable

\* C1: after a key press whose clipboard effect failed the loop is still
\* running: exit is false, main has not returned and the next iteration
\* (draw, then read) follows.
C1_EffectFailureKeepsRunning ==
    (\E i \in DOMAIN calls : calls[i] \in FailedCalls)
        => (~exit /\ main_result = "Running" /\ pc = "draw")

\* C2: in an iteration in which a call of the dispatched action failed,
\* last_error holds a message derived from that failure.
C2_FailureRecorded ==
    \A i \in DOMAIN calls :
        calls[i] \in FailedCalls
            => (last_error # None /\ last_error[1].msg = ErrorOf(calls[i]))

PasteTraces == {<<"new:Err">>, <<"new:Ok", "get_text:Ok">>, <<"new:Ok", "get_text:Err">>}
CopyTraces == {<<"set_text:Ok">>, <<"set_text:Err">>, <<"unavailable">>}

\* C3: an iteration that handled F1 (QuickFix) made the calls of paste, then
\* the normalization, then the calls of copy, whatever the paste returned,
\* and left the buffer normalized.
C3_QuickFixRunsAllSteps ==
    (Handled /\ KeyRead.code = <<"F", 1>>)
        => /\ \E p \in PasteTraces, c \in CopyTraces :
                calls = p \o <<"replace_all">> \o c
           /\ text = ReplaceAll(text)

Key(code) == [code |-> code, modifiers |-> {}, kind |-> "Press"]

\* paste, then normalize, then copy, dispatched as three key presses
ThreeActions(w, env) ==
    on_key_pressed(
        on_key_pressed(
            on_key_pressed(w, Key(<<"F", 2>>), env).w,
            Key(<<"F", 3>>), env).w,
        Key(<<"F", 4>>), env).w

\* C4: from every state in which an event is read and under every outcome of
\* the clipboard calls, QuickFix leaves text, the system clipboard and
\* last_error as PasteFromClipboard, RemoveExtraSpaces, CopyToClipboard
\* dispatched in sequence leave them.
C4_QuickFixEqualsSequence ==
    pc = "read" =>
        \A env \in Envs :
            LET q == on_key_pressed(World, Key(<<"F", 1>>), env).w
                t == ThreeActions(World, env)
            IN  /\ q.text = t.text
                /\ q.sys_clipboard = t.sys_clipboard
                /\ q.last_error = t.last_error

\* C5: CopyToClipboard with no clipboard handle leaves the buffer unchanged,
\* sets last_action to CopyToClipboard and sets last_error to a
\* "Clipboard unavailable" message.
C5_CopyUnavailable ==
    [][(Handles /\ KeyNow.code = <<"F", 4>> /\ ~clipboard)
            => /\ text' = text
               /\ last_action' = "CopyToClipboard"
               /\ last_error' # None
               /\ last_error'[1].msg = ErrUnavailable]_vars

C5_Witness ==
    /\ Handled /\ KeyRead.code = <<"F", 4>>
    /\ ~clipboard
    /\ text # <<>>
    /\ last_action = "CopyToClipboard"
    /\ last_error # None /\ last_error[1].msg = ErrUnavailable

\* C6 as claimed: when Clipboard::new() fails, PasteFromClipboard and the
\* paste step of QuickFix behave as a read miss: text and last_error are
\* unchanged and no failure is returned.
C6_PasteUnavailableSilent ==
    [][(Handles /\ KeyNow.code \in {<<"F", 1>>, <<"F", 2>>} /\ calls' = <<"new:Err">>)
            => /\ text' = text
               /\ last_error' = last_error
               /\ main_result' = "Running"]_vars

\* C6 as amended: when Clipboard::new() fails, PasteFromClipboard leaves the
\* text unchanged and sets last_action, as a read miss does, but the failure
\* is reported: last_error is overwritten with a message derived from it.
C6_PasteUnavailableReported ==
    [][(Handles /\ KeyNow.code = <<"F", 2>> /\ calls' = <<"new:Err">>)
            => /\ text' = text
               /\ last_action' = "PasteFromClipboard"
               /\ last_error' # None
               /\ last_error'[1].msg = ErrNew]_vars

C6_Witness ==
    /\ Handled /\ KeyRead.code = <<"F", 2>>
    /\ calls = <<"new:Err">>
    /\ text # <<>>
    /\ last_error # None /\ last_error[1].msg = ErrNew

\* C7: when the clipboard is opened and the read finds no text,
\* PasteFromClipboard leaves text and last_error unchanged and sets
\* last_action to PasteFromClipboard; a clipboard without text always reads
\* as a miss; when the read succeeds, text becomes the clipboard's content.
C7_ReadMissSilent ==
    [][(Handles /\ KeyNow.code = <<"F", 2>> /\ calls'[1] = "new:Ok")
            => /\ last_action' = "PasteFromClipboard"
               /\ last_error' = last_error
               /\ sys_clipboard = None => calls'[2] = "get_text:Err"
               /\ calls'[2] = "get_text:Err" => text' = text
               /\ calls'[2] = "get_text:Ok" => Some(text') = sys_clipboard]_vars

C7_Witness ==
    /\ Handled /\ KeyRead.code = <<"F", 2>>
    /\ calls = <<"new:Ok", "get_text:Err">>
    /\ text # <<>>
    /\ sys_clipboard # Some(text)
    /\ last_action = "PasteFromClipboard"
    /\ last_error = None

\* C8: a key press whose (code, modifiers) resolves to no action leaves
\* text, last_action, last_error and exit unchanged and sets
\* last_pressed_key to that key event.
C8_UnmappedKeyFrame ==
    [][(Handles /\ Resolve(KeyNow.code, KeyNow.modifiers) = "NoOp")
            => /\ text' = text
               /\ last_action' = last_action
               /\ last_error' = last_error
               /\ exit' = exit
               /\ last_pressed_key' = Some(KeyNow)]_vars

C8_Witness ==
    /\ Handled
    /\ Resolve(KeyRead.code, KeyRead.modifiers) = "NoOp"
    /\ last_pressed_key = Some(KeyRead)
    /\ text # <<>>
    /\ last_action = "RemoveExtraSpaces"

\* C9: dispatching Exit sets exit; once exit is true it stays true, no
\* event is read, no field of the App, the system clipboard or the rendered
\* state changes, and the loop is not entered again.
C9_ExitAbsorbing ==
    [][/\ (Handles /\ Resolve(KeyNow.code, KeyNow.modifiers) = "Exit") => exit'
       /\ exit => /\ UNCHANGED <<exit, text, last_pressed_key, last_error,
                                 last_action, sys_clipboard, event, calls, rendered>>
                  /\ pc' \notin {"draw", "read"}]_vars

C9_Witness ==
    /\ exit
    /\ last_action = "Exit"
    /\ pc = "done"
    /\ main_result = "Ok"
    /\ text # <<>>

FunctionKeyAction(n) ==
    CASE n = 1 -> "QuickFix"
      [] n = 2 -> "PasteFromClipboard"
      [] n = 3 -> "RemoveExtraSpaces"
      [] n = 4 -> "CopyToClipboard"
      [] n = 5 -> "ClearText"
      [] OTHER -> "NoOp"

\* C10 as claimed: a function key pressed together with a modifier resolves
\* to NoOp: no effect is executed and text and last_action are unchanged.
C10_ModifiedFunctionKeyIsNoOp ==
    [][(Handles /\ KeyNow.code[1] = "F" /\ KeyNow.modifiers # {})
            => /\ calls' = <<>>
               /\ text' = text
               /\ last_action' = last_action]_vars

\* C10 as amended: every key press dispatches exactly one action or none:
\* F1..F5 dispatch their action whatever the modifiers (the bindings are
\* modifier-insensitive), c dispatches Exit only when the modifiers are
\* exactly CONTROL, and every other combination dispatches nothing.
C10_ResolverTotal ==
    [][Handles =>
            LET a == IF KeyNow.code[1] = "F" THEN FunctionKeyAction(KeyNow.code[2])
                     ELSE IF KeyNow.code = <<"Char", "c">> /\ KeyNow.modifiers = {"CONTROL"}
                          THEN "Exit" ELSE "NoOp"
            IN  /\ a = "NoOp" => (last_action' = last_action /\ calls' = <<>>)
                /\ a # "NoOp" => last_action' = a
                /\ exit' = (a = "Exit")]_vars

C10_Witness ==
    /\ Handled /\ KeyRead.code = <<"F", 5>> /\ KeyRead.modifiers = {"SHIFT", "CONTROL"}
    /\ last_action = "ClearText"
    /\ calls = <<"clear">>

ClipboardCalls == {"new:Ok", "new:Err", "get_text:Ok", "get_text:Err",
                   "set_text:Ok", "set_text:Err"}

\* C11: when no handle was acquired at start (App.clipboard is None), no
\* later action opens or uses a clipboard: no call of Clipboard::new, get_text
\* or set_text is made, every use ends in "Clipboard unavailable".
C11_NoHandleNoClipboardCall ==
    ~clipboard => \A i \in DOMAIN calls : calls[i] \notin ClipboardCalls

QuickFixOk == <<"new:Ok", "get_text:Ok", "replace_all", "set_text:Ok">>

\* C12: a QuickFix whose paste reads the text s and whose copy succeeds
\* leaves the buffer and the system clipboard both equal to the normalized
\* s, sets last_action to QuickFix and leaves last_error as it was.
C12_QuickFixSuccess ==
    [][(Handles /\ KeyNow.code = <<"F", 1>> /\ calls' = QuickFixOk)
            => /\ sys_clipboard # None
               /\ text' = ReplaceAll(sys_clipboard[1])
               /\ sys_clipboard' = Some(ReplaceAll(sys_clipboard[1]))
               /\ last_action' = "QuickFix"
               /\ last_error' = last_error]_vars

C12_Witness ==
    /\ Handled /\ KeyRead.code = <<"F", 1>>
    /\ calls = QuickFixOk
    /\ text = <<"a", " ", "b", " ", "c">>
    /\ sys_clipboard = Some(<<"a", " ", "b", " ", "c">>)
    /\ last_action = "QuickFix"
    /\ last_error = None

\* C13: a QuickFix whose paste and normalization succeeded and whose copy
\* failed keeps the normalized pasted text in the buffer, leaves the system
\* clipboard unchanged and sets last_error to the message of the copy failure.
C13_QuickFixNoRollback ==
    [][(/\ Handles /\ KeyNow.code = <<"F", 1>>
        /\ Len(calls') = 4 /\ calls'[2] = "get_text:Ok"
        /\ calls'[4] \in {"set_text:Err", "unavailable"})
            => /\ text' = ReplaceAll(sys_clipboard[1])
               /\ sys_clipboard' = sys_clipboard
               /\ last_error' # None
               /\ last_error'[1].msg = ErrorOf(calls'[4])]_vars

C13_Witness ==
    /\ Handled /\ KeyRead.code = <<"F", 1>>
    /\ calls = <<"new:Ok", "get_text:Ok", "replace_all", "set_text:Err">>
    /\ sys_clipboard = Some(TextABC)
    /\ text = <<"a", " ", "b", " ", "c">>
    /\ last_error # None /\ last_error[1].msg = ErrSetText

\* C14: whenever main has ended, by Exit or by an error of an effect, of
\* event::read or of draw, the terminal has been restored.
C14_TeardownAlways ==
    pc = "done" => terminal = "restored"

\* C15: the state a handled key press leaves with exit false goes to the
\* renderer before anything else: the loop goes on to draw, also when the
\* effect failed, and whenever an event is read the renderer has been given
\* the current state.
C15_StateRendered ==
    /\ (Handled /\ ~exit) => pc = "draw"
    /\ pc = "read" => rendered = Some(Snapshot)

\* C16: ClearText leaves the buffer empty whatever it held and whether or
\* not an error is pending; it leaves last_error and exit unchanged and sets
\* last_action to ClearText.
C16_ClearText ==
    [][(Handles /\ KeyNow.code = <<"F", 5>>)
            => /\ text' = <<>>
               /\ last_error' = last_error
               /\ exit' = exit
               /\ last_action' = "ClearText"]_vars

C16_Witness ==
    /\ Handled /\ KeyRead.code = <<"F", 5>>
    /\ text = <<>>
    /\ last_action = "ClearText"
    /\ last_error # None
    /\ ~clipboard
    /\ calls = <<"clear">>

\* C17: RemoveExtraSpaces is idempotent: it sets the text to its normalized
\* form, normalizing that form again gives the same text, and a
\* RemoveExtraSpaces dispatched right after a RemoveExtraSpaces leaves the
\* text as it is.
C17_NormalizeIdempotent ==
    [][(Handles /\ KeyNow.code = <<"F", 3>>)
            => /\ text' = ReplaceAll(text)
               /\ ReplaceAll(text') = text'
               /\ last_action = "RemoveExtraSpaces" => text' = text]_vars

C17_Witness ==
    /\ Handled /\ KeyRead.code = <<"F", 3>>
    /\ last_action = "RemoveExtraSpaces"
    /\ text = <<" ", "a", " ">>

\* the positions of s that survive: all but a whitespace that follows one
Kept(s) == {i \in 1..Len(s) : s[i] \notin Whitespace \/ i = 1 \/ s[i - 1] \notin Whitespace}
\* the j-th smallest element of the set S of numbers
Nth(S, j) == CHOOSE i \in S : Cardinality({k \in S : k <= i}) = j
\* s with every maximal run of whitespace replaced by one space
Collapse(s) ==
    [j \in 1..Cardinality(Kept(s)) |->
        IF s[Nth(Kept(s), j)] \in Whitespace THEN " " ELSE s[Nth(Kept(s), j)]]

\* C18: RemoveExtraSpaces replaces every maximal run of whitespace by one
\* space and trims nothing (a text without whitespace is unchanged), paste
\* sets the text to the clipboard's text and clear empties it: from
\* "  hi  there " on the clipboard, paste, normalize, clear give
\* "  hi  there ", " hi there " and "".
C18_NormalizeRuns ==
    [][/\ (Handles /\ KeyNow.code = <<"F", 3>>)
            => /\ text' = Collapse(text)
               /\ (\A i \in DOMAIN text : text[i] \notin Whitespace) => text' = text
       /\ (Handles /\ KeyNow.code = <<"F", 2>> /\ calls' = <<"new:Ok", "get_text:Ok">>)
            => text' = sys_clipboard[1]
       /\ (Handles /\ KeyNow.code = <<"F", 5>>) => text' = <<>>]_vars

C18_Witness ==
    /\ Handled /\ KeyRead.code = <<"F", 3>>
    /\ sys_clipboard = Some(TextHiThere)
    /\ text = <<" ", "h", "i", " ", "t", "h", "e", "r", "e", " ">>
    /\ last_action = "RemoveExtraSpaces"

\* C19: a key press that resolves to an action leaves last_action equal to
\* that action whether its effect succeeded, missed or failed, also when
\* the first step of QuickFix failed.
C19_LastActionIsIntent ==
    [][(Handles /\ Resolve(KeyNow.code, KeyNow.modifiers) # "NoOp")
            => last_action' = Resolve(KeyNow.code, KeyNow.modifiers)]_vars

C19_Witness ==
    /\ Handled /\ KeyRead.code = <<"F", 1>>
    /\ calls = <<"new:Err">>
    /\ last_action = "QuickFix"
    /\ rendered # None /\ rendered[1].last_action = "ClearText"

\* C20: once last_error holds a message it holds one in every later state:
\* a step leaves it as it is or overwrites it with the message of a call
\* that failed in that step; no success, miss, unmapped key, ClearText,
\* Exit or ignored event sets it back to None.
C20_LastErrorNeverCleared ==
    [][last_error # None
            => /\ last_error' # None
               /\ \/ last_error' = last_error
                  \/ \E i \in DOMAIN calls' :
                        /\ calls'[i] \in FailedCalls
                        /\ last_error'[1].msg = ErrorOf(calls'[i])]_vars

C20_Witness ==
    /\ last_error # None
    /\ exit
    /\ event = Some(<<"Resize">>)
    /\ last_action = "Exit"
    /\ text = <<" ">>

====
